---- MODULE Spec2Model ----
(***************************************************************************)
(* ArchiSwipe: the swipe page (card queue, gesture handler, fetch and      *)
(* swipe network calls) and the avatar upload validator, as state          *)
(* machines.                                                               *)
(*                                                                         *)
(* The swipe page exists in two revisions in the source tree.  They differ *)
(* in how keys and buttons reach completeSwipe and in how completeSwipe    *)
(* removes the card:                                                       *)
(*   "ref"    unnamed/part_005: keys and buttons go through activeCardRef  *)
(*            (fly-out animation first); removal by findIndex/splice.      *)
(*   "direct" src/app/swipe/page.tsx: keys and buttons call completeSwipe  *)
(*            on cards[0]; removal only when the card is at the front.     *)
(* The revision is fixed in Init and every handler is modelled for both.   *)
(***************************************************************************)
EXTENDS Integers, Sequences, FiniteSets, TLC

VARIABLES
  revision,                  \* which revision of the swipe page is running
  route,                     \* "/swipe" while SwipePage is mounted, "/auth" after the redirect
  session,                   \* AuthContext session (NoSession = null)
  isLoadingAuth,             \* AuthContext isLoading
  cards,                     \* useState cards: sequence of image ids
  isLoading,                 \* useState isLoading
  error,                     \* useState error (NoError = null)
  outOfCards,                \* useState outOfCards
  currentlyProcessingSwipe,  \* useRef Set<number>
  isFetchingRef,             \* useRef boolean
  pendingSwipes,             \* fly-out animations whose onSwipeComplete has not run yet
  swipeInFlight,             \* awaited inserts into 'swipes'
  fetchInFlight,             \* awaited get_unseen_images calls
  fetchCount,                \* how many get_unseen_images calls are awaited
  uncaught,                  \* the last handler let an exception escape
  last,                      \* the last handler that ran, and how its network call was answered
  vRemoved,                  \* validator: paths passed to storage remove by the last request
  vStatus,                   \* validator: status of the last response
  vReq,                      \* validator: the last request
  vDeleteFails,              \* validator: storage remove answers the last request with an error
  aStore,                    \* set-admin-role: app_metadata.roles of the user in the auth store
  aReq,                      \* set-admin-role: the last request
  aStatus,                   \* set-admin-role: status of the last response
  aCalls,                    \* set-admin-role: auth.admin calls made for the last request
  sessionRoles,              \* session.user.app_metadata.roles of the AuthContext session
  delivered,                 \* what the last onAuthStateChange callback delivered (<<>> before the first)
  adminView,                 \* what AdminLayout rendered last ("none": not mounted)
  adminRedirect,             \* target of AdminLayout's router.replace not yet completed
  signOutInFlight            \* AdminLayout: awaited supabase.auth.signOut()

pageVars == <<revision, route, session, isLoadingAuth, cards, isLoading, error,
              outOfCards, currentlyProcessingSwipe, isFetchingRef,
              pendingSwipes, swipeInFlight, fetchInFlight, fetchCount, uncaught,
              last>>
validatorVars == <<vRemoved, vStatus, vReq, vDeleteFails>>
adminRoleVars == <<aStore, aReq, aStatus, aCalls>>
serverVars == <<validatorVars, adminRoleVars>>
layoutVars == <<sessionRoles, delivered, adminView, adminRedirect, signOutInFlight>>
vars == <<pageVars, serverVars, layoutVars>>

----------------------------------------------------------------------------
(* Program constants *)
SWIPE_THRESHOLD == 100
VELOCITY_THRESHOLD == 200
CARD_FETCH_THRESHOLD == 3
VISIBLE_CARDS == 3
FETCH_COUNT == 5
UNIQUE_VIOLATION == "23505"

(* Bounds of the model *)
NumImages == 2          \* image ids the backend can return
MaxBatch == 2           \* longest batch the backend returns in the model
MaxPending == 1         \* fly-out animations pending at the same time

ImageIds == 1..NumImages
NoSession == 0
Sessions == {1}         \* the signed-in user's session
NoError == "null"
NoCard == 0

Min(a, b) == IF a < b THEN a ELSE b
Abs(n) == IF n < 0 THEN 0 - n ELSE n

\* session?.user?.id
UserIdOf(s) == IF s = NoSession THEN "none" ELSE "user-1"

----------------------------------------------------------------------------
(* Backend answers (the remote functions are not part of the source tree:  *)
(* any answer is possible)                                                 *)

RECURSIVE SeqsUpTo(_, _)
SeqsUpTo(S, n) ==
  IF n = 0 THEN {<<>>}
  ELSE LET shorter == SeqsUpTo(S, n - 1)
       IN  shorter \cup {Append(q, x) : q \in shorter, x \in S}

\* { data } of supabase.rpc('get_unseen_images'): any rows, repeated ids included
Batches == SeqsUpTo(ImageIds, MaxBatch)

\* { data, error } of supabase.rpc: error is null or an object with a message
NoRpcError == [isNull |-> TRUE, message |-> ""]
RpcErrors == {[isNull |-> FALSE, message |-> "rpc failed"],
              [isNull |-> FALSE, message |-> ""]}
\* { error } of supabase.from('swipes').insert: null or an object with a code
NoSwipeError == [isNull |-> TRUE, code |-> ""]
SwipeErrors == {[isNull |-> FALSE, code |-> UNIQUE_VIOLATION],
                [isNull |-> FALSE, code |-> "42501"]}

----------------------------------------------------------------------------
(* The page as a record, so that handlers compose as functions *)
Page ==
  [cards |-> cards, isLoading |-> isLoading, error |-> error,
   outOfCards |-> outOfCards,
   currentlyProcessingSwipe |-> currentlyProcessingSwipe,
   isFetchingRef |-> isFetchingRef,
   swipeInFlight |-> swipeInFlight, fetchInFlight |-> fetchInFlight,
   fetchCount |-> fetchCount, uncaught |-> FALSE]

Commit(st) ==
  /\ cards' = st.cards
  /\ isLoading' = st.isLoading
  /\ error' = st.error
  /\ outOfCards' = st.outOfCards
  /\ currentlyProcessingSwipe' = st.currentlyProcessingSwipe
  /\ isFetchingRef' = st.isFetchingRef
  /\ swipeInFlight' = st.swipeInFlight
  /\ fetchInFlight' = st.fetchInFlight
  /\ fetchCount' = st.fetchCount
  /\ uncaught' = st.uncaught

RpcCall(uid, count) ==
  [call |-> "rpc:get_unseen_images", user_id |-> uid, image_id |-> NoCard,
   direction |-> FALSE, result_limit |-> count]
InsertCall(uid, imageId, direction) ==
  [call |-> "insert:swipes", user_id |-> uid, image_id |-> imageId,
   direction |-> direction, result_limit |-> 0]

----------------------------------------------------------------------------
(* (variant: isFetchingRef.current is not set) *)
fetchImagesWithoutFlag(st, sess, count) ==
  IF st.isFetchingRef \/ st.outOfCards \/ sess = NoSession
  THEN st
  ELSE [st EXCEPT !.isLoading = TRUE,
                  !.error = NoError,
                  !.fetchInFlight = @ \cup {RpcCall(UserIdOf(sess), count)},
                  !.fetchCount = @ + 1]

(* fetchImages, up to the await *)
fetchImages(st, sess, count) ==
  IF st.isFetchingRef \/ st.outOfCards \/ sess = NoSession
  THEN st
  ELSE [st EXCEPT !.isFetchingRef = TRUE,
                  !.isLoading = TRUE,
                  !.error = NoError,
                  !.fetchInFlight = @ \cup {RpcCall(UserIdOf(sess), count)},
                  !.fetchCount = @ + 1]

\* useEffect: initial fetch
InitialFetchEffect(st, sess) ==
  IF sess # NoSession /\ ~st.isFetchingRef /\ Len(st.cards) = 0 /\ ~st.outOfCards
  THEN fetchImages(st, sess, FETCH_COUNT)
  ELSE st

\* (variant: the threshold compared as "fewer than CARD_FETCH_THRESHOLD - 1")
PrefetchEffectOffByOne(st, sess) ==
  IF ~st.isFetchingRef /\ ~st.outOfCards
       /\ Len(st.cards) > 0 /\ Len(st.cards) < CARD_FETCH_THRESHOLD - 1
  THEN fetchImages(st, sess, FETCH_COUNT)
  ELSE st

\* useEffect: prefetch when the list runs low
PrefetchEffect(st, sess) ==
  IF ~st.isFetchingRef /\ ~st.outOfCards
       /\ Len(st.cards) > 0 /\ Len(st.cards) < CARD_FETCH_THRESHOLD
  THEN fetchImages(st, sess, FETCH_COUNT)
  ELSE st

\* (variant: effects without dependency arrays, run after every render)
RunEffectsEveryRender(st, sess, sessionChanged, mounted) ==
  IF mounted
  THEN PrefetchEffect(InitialFetchEffect(st, sess), sess)
  ELSE st

\* The effects run after a render in which one of their dependencies changed:
\* session, cards.length, outOfCards (fetchImages changes with outOfCards and
\* session).  They do not run on an unmounted page.
RunEffects(st, sess, sessionChanged, mounted) ==
  IF mounted /\ (sessionChanged \/ Len(st.cards) # Len(cards)
                   \/ st.outOfCards # outOfCards)
  THEN PrefetchEffect(InitialFetchEffect(st, sess), sess)
  ELSE st

\* (variant: the batch appended without the existingIds filter)
AppendUnfiltered(prev, newCards) == prev \o newCards

\* setCards(prev => ...) of a fetch that returned cards
AppendUnique(prev, newCards) ==
  LET existingIds == {prev[i] : i \in 1..Len(prev)}
      uniqueNewCards == SelectSeq(newCards, LAMBDA c : c \notin existingIds)
  IN  prev \o uniqueNewCards

\* (variant: the catch block logs the error without setError)
fetchImagesResumeSilent(st, req, data, rpcError) ==
  LET done == [st EXCEPT !.fetchInFlight = IF st.fetchCount > 1 THEN @ ELSE @ \ {req},
                         !.fetchCount = @ - 1]
      body ==
        IF ~rpcError.isNull
        THEN done
        ELSE IF Len(data) > 0
        THEN [done EXCEPT !.cards = AppendUnique(@, data),
                          !.outOfCards = FALSE]
        ELSE [done EXCEPT !.outOfCards = IF Len(done.cards) = 0 THEN TRUE ELSE @]
  IN  [body EXCEPT !.isLoading = FALSE, !.isFetchingRef = FALSE]

\* fetchImages, after the await
fetchImagesResume(st, req, data, rpcError) ==
  LET done == [st EXCEPT !.fetchInFlight = IF st.fetchCount > 1 THEN @ ELSE @ \ {req},
                         !.fetchCount = @ - 1]
      body ==
        IF ~rpcError.isNull
        THEN \* throw rpcError; catch: setError(err.message || '...')
             [done EXCEPT !.error = IF rpcError.message # ""
                                    THEN rpcError.message
                                    ELSE "Failed to fetch images."]
        ELSE IF Len(data) > 0
        THEN [done EXCEPT !.cards = AppendUnique(@, data),
                          !.outOfCards = FALSE]
        ELSE [done EXCEPT !.outOfCards = IF Len(done.cards) = 0 THEN TRUE ELSE @]
  IN  \* finally
      [body EXCEPT !.isLoading = FALSE, !.isFetchingRef = FALSE]

----------------------------------------------------------------------------
(* (variant: without the currentlyProcessingSwipe guard) *)
completeSwipeUnguarded(st, sess, imageId, direction) ==
  IF sess = NoSession
  THEN st
  ELSE LET c == InsertCall(UserIdOf(sess), imageId, direction = "right")
       IN  [st EXCEPT !.currentlyProcessingSwipe = @ \cup {imageId},
                      !.swipeInFlight = @ \cup {c}]

(* completeSwipe, up to the await *)
completeSwipe(st, sess, imageId, direction) ==
  IF sess = NoSession \/ imageId \in st.currentlyProcessingSwipe
  THEN st
  ELSE LET c == InsertCall(UserIdOf(sess), imageId, direction = "right")
       IN  [st EXCEPT !.currentlyProcessingSwipe = @ \cup {imageId},
                      !.swipeInFlight = @ \cup {c}]

RECURSIVE FindIndex(_, _, _)
\* prev.findIndex(card => card.id === imageId), 1-based, 0 when absent
FindIndex(prev, imageId, i) ==
  IF i > Len(prev) THEN 0
  ELSE IF prev[i] = imageId THEN i
  ELSE FindIndex(prev, imageId, i + 1)

\* setCards(prev => ...) of completeSwipe
RemoveCard(rev, prev, imageId) ==
  IF rev = "ref"
  THEN LET cardIndex == FindIndex(prev, imageId, 1)
       IN  IF cardIndex > 0
           THEN SubSeq(prev, 1, cardIndex - 1) \o SubSeq(prev, cardIndex + 1, Len(prev))
           ELSE IF Len(prev) > 0 /\ prev[1] = imageId THEN Tail(prev)
           ELSE prev
  ELSE IF Len(prev) > 0 /\ prev[1] = imageId THEN Tail(prev)
       ELSE prev

\* (variant: every insert error is thrown, 23505 included)
completeSwipeResumeThrowsOnConflict(st, rev, c, swipeError) ==
  LET done == [st EXCEPT !.swipeInFlight = @ \ {c}]
      thrown == ~swipeError.isNull
      body ==
        IF thrown
        THEN done
        ELSE [done EXCEPT !.cards = RemoveCard(rev, @, c.image_id)]
  IN  [body EXCEPT !.currentlyProcessingSwipe = @ \ {c.image_id}]

\* completeSwipe, after the await
completeSwipeResume(st, rev, c, swipeError) ==
  LET done == [st EXCEPT !.swipeInFlight = @ \ {c}]
      thrown == ~swipeError.isNull /\ swipeError.code # UNIQUE_VIOLATION
      body ==
        IF thrown
        THEN done   \* catch: console.error only, nothing is rethrown
        ELSE [done EXCEPT !.cards = RemoveCard(rev, @, c.image_id)]
  IN  \* finally
      [body EXCEPT !.currentlyProcessingSwipe = @ \ {c.image_id}]

----------------------------------------------------------------------------
(* Render: the card stack *)
\* cards.slice(0, VISIBLE_CARDS).reverse().map((card, indexInReversedStack) => ...)
\* as a sequence of [card, index, isActive], in the order rendered
RenderedStack(cs) ==
  LET n == Min(VISIBLE_CARDS, Len(cs))
      reversed == [k \in 1..n |-> cs[n + 1 - k]]
  IN  [k \in 1..n |->
         LET indexInReversedStack == k - 1
             index == VISIBLE_CARDS - 1 - indexInReversedStack
         IN  [card |-> reversed[k], index |-> index, isActive |-> (index = 0)]]

\* the page renders the stack only with auth loaded and a session
Rendered ==
  IF route = "/swipe" /\ ~isLoadingAuth /\ session # NoSession
  THEN RenderedStack(cards)
  ELSE <<>>

\* activeCardRef.current: the card rendered with ref={activeCardRef}
activeCardRef ==
  LET act == {k \in 1..Len(Rendered) : Rendered[k].isActive}
  IN  IF act = {} THEN NoCard ELSE Rendered[CHOOSE k \in act : TRUE].card

----------------------------------------------------------------------------
(* Card: gesture handlers *)

\* triggerSwipeAnimation: starts the fly-out; onSwipeComplete (a closure of
\* the render: card.id, isActive, completeSwipe with its session) runs when
\* the animation has finished
triggerSwipeAnimation(pend, r, direction, sess) ==
  pend \cup {[id |-> r.card, dir |-> direction, isActive |-> r.isActive,
              sess |-> sess]}

\* (variant: the thresholds compared with >=)
handleDragEndAtThreshold(pend, r, offsetX, velocityX, sess) ==
  IF ~r.isActive THEN pend
  ELSE IF Abs(offsetX) >= SWIPE_THRESHOLD \/ Abs(velocityX) >= VELOCITY_THRESHOLD
       THEN triggerSwipeAnimation(pend, r,
                                  IF offsetX > 0 THEN "right" ELSE "left", sess)
       ELSE pend

\* handleDragEnd of the rendered card r with info.offset.x and info.velocity.x
handleDragEnd(pend, r, offsetX, velocityX, sess) ==
  IF ~r.isActive THEN pend
  ELSE IF Abs(offsetX) > SWIPE_THRESHOLD \/ Abs(velocityX) > VELOCITY_THRESHOLD
       THEN triggerSwipeAnimation(pend, r,
                                  IF offsetX > 0 THEN "right" ELSE "left", sess)
       ELSE pend   \* animate(x, 0): spring back

\* the rendered card that holds activeCardRef
ActiveRendered == Rendered[CHOOSE k \in 1..Len(Rendered) : Rendered[k].isActive]

\* <<info.offset.x, info.velocity.x>> of the releases tried
Releases == {<<0, 0>>, <<100, 200>>, <<-100, -200>>, <<101, 0>>, <<-101, 0>>,
             <<0, 201>>, <<0, -201>>, <<50, 201>>, <<-50, -201>>, <<101, -201>>}
Keys == {"ArrowLeft", "ArrowRight", "Enter"}
Directions == {"left", "right"}
KeyDirection(key) == IF key = "ArrowLeft" THEN "left" ELSE "right"

Quiet == /\ uncaught' = FALSE
         /\ UNCHANGED <<cards, isLoading, error, outOfCards,
                        currentlyProcessingSwipe, isFetchingRef,
                        swipeInFlight, fetchInFlight, fetchCount>>

\* the component state of an unmounted page is gone (state setters are
\* no-ops); its refs and its awaited calls live on
Unmounted(st) ==
  [st EXCEPT !.cards = <<>>, !.isLoading = FALSE,
             !.error = NoError, !.outOfCards = FALSE]

Settle(st) == IF route = "/swipe" THEN st ELSE Unmounted(st)

----------------------------------------------------------------------------
(* AuthProvider *)

\* (variant: loading ends only when a session is delivered)
AuthProviderCallbackLoadingUntilSession(s, roles) ==
  /\ session' = s
  /\ isLoadingAuth' = (isLoadingAuth /\ s = NoSession)
  /\ sessionRoles' = roles
  /\ delivered' = <<[session |-> s, roles |-> roles]>>

\* the onAuthStateChange callback: setSession(currentSession),
\* setIsLoading(false).  roles: app_metadata.roles of currentSession's user.
AuthProviderCallback(s, roles) ==
  /\ session' = s
  /\ isLoadingAuth' = FALSE
  /\ sessionRoles' = roles
  /\ delivered' = <<[session |-> s, roles |-> roles]>>

----------------------------------------------------------------------------
(* Actions *)

\* onAuthStateChange callback of AuthProvider (setSession, setIsLoading),
\* then the page's effects.  newObject: the listener delivers a session
\* object that is not the one held (a sign-in or a token refresh).
AuthEvent(s, newObject) ==
  /\ AuthProviderCallback(s, sessionRoles)
  /\ route' = IF route \in {"/swipe", "/profile"} /\ s = NoSession
               THEN "/auth" ELSE route
  /\ LET st == RunEffects(Page, s, s # session \/ (s # NoSession /\ newObject),
                          route = "/swipe")
     IN  Commit(IF route' = "/swipe" THEN st ELSE Unmounted(st))
  /\ last' = "auth"
  /\ UNCHANGED <<revision, pendingSwipes, serverVars, adminView, adminRedirect,
                 signOutInFlight>>

\* onDragEnd of the k-th rendered card
DragEnd(k, offsetX, velocityX) ==
  /\ k \in 1..Len(Rendered)
  /\ Cardinality(pendingSwipes) < MaxPending
  /\ pendingSwipes' = handleDragEnd(pendingSwipes, Rendered[k], offsetX, velocityX, session)
  /\ last' = "drag"
  /\ Quiet
  /\ UNCHANGED <<revision, route, session, isLoadingAuth, serverVars, layoutVars>>

\* window keydown listener.  withinCooldown: now - lastKeyPressTimeRef.current
\* < KEY_COOLDOWN_MS (the clock is not modelled: a key may arrive at any time)
onKeyDown(key, withinCooldown) ==
  /\ route = "/swipe"
  /\ Cardinality(pendingSwipes) < MaxPending
  /\ last' = "key"
  /\ IF withinCooldown \/ isLoadingAuth \/ Len(cards) = 0
     THEN Quiet /\ UNCHANGED pendingSwipes
     ELSE IF revision = "ref"
     THEN /\ Quiet
          /\ pendingSwipes' =
               IF activeCardRef # NoCard /\ key \in {"ArrowLeft", "ArrowRight"}
               THEN triggerSwipeAnimation(pendingSwipes, ActiveRendered,
                                          KeyDirection(key), session)
               ELSE pendingSwipes
     ELSE /\ UNCHANGED pendingSwipes
          /\ IF key \in {"ArrowLeft", "ArrowRight"}
             THEN Commit(completeSwipe(Page, session, cards[1], KeyDirection(key)))
             ELSE Quiet
  /\ UNCHANGED <<revision, route, session, isLoadingAuth, serverVars, layoutVars>>

\* onClick of the Nope / Like buttons
handleButtonSwipe(direction) ==
  /\ route = "/swipe" /\ ~isLoadingAuth /\ session # NoSession
  /\ Cardinality(pendingSwipes) < MaxPending
  /\ last' = "button"
  /\ IF Len(cards) = 0
     THEN Quiet /\ UNCHANGED pendingSwipes
     ELSE IF revision = "ref"
     THEN /\ Quiet
          /\ pendingSwipes' =
               IF activeCardRef = NoCard THEN pendingSwipes
               ELSE triggerSwipeAnimation(pendingSwipes, ActiveRendered,
                                          direction, session)
     ELSE /\ UNCHANGED pendingSwipes
          /\ Commit(completeSwipe(Page, session, cards[1], direction))
  /\ UNCHANGED <<revision, route, session, isLoadingAuth, serverVars, layoutVars>>

\* the fly-out animation of p has finished: requestAnimationFrame(() =>
\* onSwipeComplete(direction)), i.e. isActive ? completeSwipe(card.id, ...) : undefined
AnimationDone(p) ==
  /\ p \in pendingSwipes
  /\ pendingSwipes' = pendingSwipes \ {p}
  /\ last' = IF p.isActive /\ p.id \in currentlyProcessingSwipe
             THEN "animation:busy" ELSE "animation"
  /\ IF p.isActive
     THEN Commit(completeSwipe(Page, p.sess, p.id, p.dir))
     ELSE Quiet
  /\ UNCHANGED <<revision, route, session, isLoadingAuth, serverVars, layoutVars>>

\* the insert c is answered; completeSwipe resumes, the page re-renders and
\* its effects run
SwipeDone(c, swipeError) ==
  /\ c \in swipeInFlight
  /\ last' = IF swipeError.isNull THEN "insert:ok" ELSE "insert:" \o swipeError.code
  /\ Commit(RunEffects(Settle(completeSwipeResume(Page, revision, c, swipeError)),
                       session, FALSE, route = "/swipe"))
  /\ UNCHANGED <<revision, route, session, isLoadingAuth,
                 pendingSwipes, serverVars, layoutVars>>

\* the rpc req is answered; fetchImages resumes, the page re-renders and its
\* effects run
FetchDone(req, data, rpcError) ==
  /\ req \in fetchInFlight
  /\ last' = IF ~rpcError.isNull THEN "rpc:error"
             ELSE IF Len(data) > 0 THEN "rpc:cards" ELSE "rpc:empty"
  /\ Commit(RunEffects(Settle(fetchImagesResume(Page, req, data, rpcError)),
                       session, FALSE, route = "/swipe"))
  /\ UNCHANGED <<revision, route, session, isLoadingAuth,
                 pendingSwipes, serverVars, layoutVars>>

----------------------------------------------------------------------------
(* validate-avatar-upload *)

MAX_FILE_SIZE_MB == 2
MaxFileSize == MAX_FILE_SIZE_MB * 1024 * 1024

\* strings that are lower-cased are sequences of characters
UpperChars == <<"A", "B", "C", "D", "E", "F", "G", "H", "I", "J", "K", "L", "M",
                "N", "O", "P", "Q", "R", "S", "T", "U", "V", "W", "X", "Y", "Z">>
LowerChars == <<"a", "b", "c", "d", "e", "f", "g", "h", "i", "j", "k", "l", "m",
                "n", "o", "p", "q", "r", "s", "t", "u", "v", "w", "x", "y", "z">>
toLowerCase(str) ==
  [i \in 1..Len(str) |->
     IF \E k \in 1..26 : UpperChars[k] = str[i]
     THEN LowerChars[CHOOSE k \in 1..26 : UpperChars[k] = str[i]]
     ELSE str[i]]

ImageJpeg == <<"i", "m", "a", "g", "e", "/", "j", "p", "e", "g">>
ImagePng == <<"i", "m", "a", "g", "e", "/", "p", "n", "g">>
ImageGif == <<"i", "m", "a", "g", "e", "/", "g", "i", "f">>
ImageWebp == <<"i", "m", "a", "g", "e", "/", "w", "e", "b", "p">>
ALLOWED_MIME_TYPES == {ImageJpeg, ImagePng, ImageGif, ImageWebp}

\* JavaScript values of record.metadata?.size and record.metadata?.mimetype
Undefined == [t |-> "undefined", n |-> 0, s |-> <<>>]
Num(n) == [t |-> "number", n |-> n, s |-> <<>>]
Str(s) == [t |-> "string", n |-> 0, s |-> s]

SizeValues ==
  {Undefined, Str(<<"1", "0">>)}
    \cup {Num(n) : n \in {0, MaxFileSize - 1, MaxFileSize, MaxFileSize + 1}}
MimeValues ==
  {Undefined, Num(1)}
    \cup {Str(m) : m \in ALLOWED_MIME_TYPES}
    \cup {Str(<<"I", "M", "A", "G", "E", "/", "P", "N", "G">>),
          Str(<<"I", "m", "a", "g", "e", "/", "J", "p", "e", "g">>),
          Str(<<"t", "e", "x", "t", "/", "p", "l", "a", "i", "n">>),
          Str(<<"i", "m", "a", "g", "e", "/", "p", "n", "g", "x">>),
          Str(<<>>)}

\* body.record of the trigger payload (present = FALSE: no record key)
AvatarRecords ==
  [present : {TRUE}, bucket_id : {"avatars"}, name : {"u1/avatar.png"},
   size : SizeValues, mimetype : MimeValues]

\* the trigger's request for an INSERT on storage.objects
TriggerRequest(record) ==
  [method |-> "POST", json |-> TRUE, type |-> "INSERT", table |-> "objects",
   schema |-> "storage", record |-> record]

\* the requests tried: every avatar upload through the trigger, and every
\* way of missing the trigger (one field off) with an oversized text file and
\* with a small png.  json = FALSE: req.json() rejects, or the body is not an
\* object (body.record throws).
OffTrigger(t) ==
  {[t EXCEPT !.method = "GET"], [t EXCEPT !.json = FALSE],
   [t EXCEPT !.type = "DELETE"], [t EXCEPT !.table = "buckets"],
   [t EXCEPT !.schema = "public"], [t EXCEPT !.record.present = FALSE],
   [t EXCEPT !.record.bucket_id = "house-images"]}

Requests ==
  {TriggerRequest(r) : r \in AvatarRecords}
    \cup UNION {OffTrigger(TriggerRequest(r)) :
                 r \in {x \in AvatarRecords :
                          \/ x.size = Num(MaxFileSize + 1)
                               /\ x.mimetype = Str(<<"t", "e", "x", "t", "/", "p", "l", "a", "i", "n">>)
                          \/ x.size = Num(0) /\ x.mimetype = Str(ImagePng)}}

\* (variant: the size limit compared with >=)
handleStorageObjectInsertAtLimit(record, deleteFails) ==
  IF ~record.present \/ record.bucket_id # "avatars"
  THEN [removed |-> <<>>, threw |-> "no"]
  ELSE LET fileSize == record.size
           mimeType == record.mimetype
           sizeOk == ~(fileSize.t # "number" \/ fileSize.n >= MaxFileSize)
           mimeOk == ~(mimeType.t # "string"
                         \/ toLowerCase(mimeType.s) \notin ALLOWED_MIME_TYPES)
           isValid == sizeOk /\ mimeOk
           call == [bucket |-> record.bucket_id, paths |-> <<record.name>>]
       IN  IF ~isValid
           THEN IF deleteFails
                THEN [removed |-> <<call>>, threw |-> "Failed to cleanup invalid file"]
                ELSE [removed |-> <<call>>, threw |-> "Invalid file uploaded"]
           ELSE [removed |-> <<>>, threw |-> "no"]

\* handleStorageObjectInsert: what it removes and how it ends.  deleteFails:
\* storage remove answers with an error.
handleStorageObjectInsert(record, deleteFails) ==
  IF ~record.present \/ record.bucket_id # "avatars"
  THEN [removed |-> <<>>, threw |-> "no"]
  ELSE LET fileSize == record.size
           mimeType == record.mimetype
           sizeOk == ~(fileSize.t # "number" \/ fileSize.n > MaxFileSize)
           mimeOk == ~(mimeType.t # "string"
                         \/ toLowerCase(mimeType.s) \notin ALLOWED_MIME_TYPES)
           isValid == sizeOk /\ mimeOk
           call == [bucket |-> record.bucket_id, paths |-> <<record.name>>]
       IN  IF ~isValid
           THEN IF deleteFails
                THEN [removed |-> <<call>>, threw |-> "Failed to cleanup invalid file"]
                ELSE [removed |-> <<call>>, threw |-> "Invalid file uploaded"]
           ELSE [removed |-> <<>>, threw |-> "no"]

\* (variant: every thrown error answered with 500)
ResponseStatusAlways500(threw) ==
  IF threw = "no" THEN 200 ELSE 500

\* status of the response: 200 after a return, and in the catch block
\* error.message.startsWith("Invalid file uploaded") ? 400 : 500
ResponseStatus(threw) ==
  IF threw = "no" THEN 200
  ELSE IF threw = "Invalid file uploaded" THEN 400
  ELSE 500

\* (variant: the trigger condition without body.type === 'INSERT')
ServeValidatorAnyEvent(req, deleteFails) ==
  IF req.method = "POST"
  THEN IF ~req.json
       THEN [removed |-> <<>>, status |-> ResponseStatus("body")]
       ELSE IF req.record.present
                 /\ req.table = "objects" /\ req.schema = "storage"
       THEN LET r == handleStorageObjectInsert(req.record, deleteFails)
            IN  [removed |-> r.removed, status |-> ResponseStatus(r.threw)]
       ELSE [removed |-> <<>>, status |-> 200]
  ELSE [removed |-> <<>>, status |-> 200]

\* serve(async (req) => ...)
ServeValidator(req, deleteFails) ==
  IF req.method = "POST"
  THEN IF ~req.json
       THEN \* req.json() rejects: the catch block answers
            [removed |-> <<>>, status |-> ResponseStatus("body")]
       ELSE IF req.record.present /\ req.type = "INSERT"
                 /\ req.table = "objects" /\ req.schema = "storage"
       THEN LET r == handleStorageObjectInsert(req.record, deleteFails)
            IN  [removed |-> r.removed, status |-> ResponseStatus(r.threw)]
       ELSE [removed |-> <<>>, status |-> 200]
  ELSE [removed |-> <<>>, status |-> 200]

NoRequest ==
  [method |-> "GET", json |-> FALSE, type |-> "DELETE", table |-> "buckets",
   schema |-> "public",
   record |-> [present |-> FALSE, bucket_id |-> "house-images",
               name |-> "u1/avatar.png", size |-> Undefined, mimetype |-> Undefined]]

InitValidator ==
  /\ vReq = NoRequest
  /\ vRemoved = <<>>
  /\ vStatus = 0
  /\ vDeleteFails = FALSE

\* one request to the edge function, handled to its response
ValidatorRequest(req, deleteFails) ==
  /\ vReq' = req
  /\ vDeleteFails' = deleteFails
  /\ vRemoved' = ServeValidator(req, deleteFails).removed
  /\ vStatus' = ServeValidator(req, deleteFails).status
  /\ UNCHANGED <<pageVars, adminRoleVars, layoutVars>>

NextValidator ==
  \E req \in Requests, deleteFails \in BOOLEAN : ValidatorRequest(req, deleteFails)

----------------------------------------------------------------------------
(* set-admin-role *)

RoleNames == {"admin", "editor", "viewer"}
MaxRoles == 2           \* longest roles array a user has in the model

\* app_metadata.roles: undefined (no key) or an array of role names
NoRoles == [defined |-> FALSE, list |-> <<>>]
RolesOf(list) == [defined |-> TRUE, list |-> list]
RoleValues == {NoRoles} \cup {RolesOf(l) : l \in SeqsUpTo(RoleNames, MaxRoles)}

Bool(b) == [t |-> "boolean", n |-> IF b THEN 1 ELSE 0, s |-> <<>>]
\* JavaScript truthiness of a value
Truthy(v) ==
  CASE v.t = "undefined" -> FALSE
    [] v.t = "boolean" -> v.n = 1
    [] v.t = "number" -> v.n # 0
    [] v.t = "string" -> v.s # <<>>

\* the user of the auth store, and an id the store does not know
KnownUser == Str(<<"u", "1">>)
UnknownUser == Str(<<"u", "9">>)

\* { userId, isAdmin } of the request body (json = FALSE: req.json() rejects)
UserIdValues == {Undefined, Str(<<>>), KnownUser, UnknownUser}
IsAdminValues == {Undefined, Bool(TRUE), Bool(FALSE), Num(0), Num(1),
                  Str(<<>>), Str(<<"f", "a", "l", "s", "e">>)}
AdminRequests ==
  [json : {TRUE}, userId : UserIdValues, isAdmin : IsAdminValues]
    \cup {[json |-> FALSE, userId |-> Undefined, isAdmin |-> Undefined]}

GetUserCall(userId, roles, ok) ==
  [fn |-> "getUserById", userId |-> userId, roles |-> roles, ok |-> ok]
UpdateUserCall(userId, roles, ok) ==
  [fn |-> "updateUserById", userId |-> userId, roles |-> roles, ok |-> ok]

\* (variant: the roles are written back without the filter)
updatedRolesUnfiltered(currentRoles) ==
  LET updated == currentRoles
  IN  IF Len(updated) > 0 THEN RolesOf(updated) ELSE NoRoles

\* currentRoles.filter(role => role !== 'admin'), undefined when empty
updatedRoles(currentRoles) ==
  LET updated == SelectSeq(currentRoles, LAMBDA role : role # "admin")
  IN  IF Len(updated) > 0 THEN RolesOf(updated) ELSE NoRoles

\* (variant: an error of updateUserById is logged and not thrown)
SetAdminRoleIgnoresUpdateError(req, store, getFails, updateFails, keeps) ==
  IF ~req.json
  THEN [status |-> 500, calls |-> <<>>, store |-> store]
  ELSE IF ~Truthy(req.userId)
  THEN [status |-> 400, calls |-> <<>>, store |-> store]
  ELSE
    LET known == req.userId = KnownUser
        getOk == known /\ ~getFails
        updateOk == known /\ ~updateFails
        get == GetUserCall(req.userId, IF getOk THEN store ELSE NoRoles, getOk)
        currentRoles == IF store.defined THEN store.list ELSE <<>>
        written == IF Truthy(req.isAdmin) THEN RolesOf(<<"admin">>)
                   ELSE updatedRoles(currentRoles)
        update == UpdateUserCall(req.userId, written, updateOk)
        before == IF Truthy(req.isAdmin) THEN <<>> ELSE <<get>>
        stored == IF written.defined \/ ~keeps THEN written ELSE store
    IN  IF ~Truthy(req.isAdmin) /\ ~getOk
        THEN [status |-> 500, calls |-> before, store |-> store]
        ELSE [status |-> 200, calls |-> Append(before, update),
              store |-> IF updateOk THEN stored ELSE store]

\* serve(async (req) => ...): the response status, the auth.admin calls made
\* and the store afterwards.  getFails, updateFails: the call answers with an
\* error (it always does for an unknown user).  keeps: the store leaves the
\* roles key as it is when the update carries roles: undefined (what the
\* store does with an undefined value is not in the source: both outcomes).
SetAdminRole(req, store, getFails, updateFails, keeps) ==
  IF ~req.json
  THEN [status |-> 500, calls |-> <<>>, store |-> store]
  ELSE IF ~Truthy(req.userId)
  THEN [status |-> 400, calls |-> <<>>, store |-> store]
  ELSE
    LET known == req.userId = KnownUser
        getOk == known /\ ~getFails
        updateOk == known /\ ~updateFails
        get == GetUserCall(req.userId, IF getOk THEN store ELSE NoRoles, getOk)
        currentRoles == IF store.defined THEN store.list ELSE <<>>
        written == IF Truthy(req.isAdmin) THEN RolesOf(<<"admin">>)
                   ELSE updatedRoles(currentRoles)
        update == UpdateUserCall(req.userId, written, updateOk)
        before == IF Truthy(req.isAdmin) THEN <<>> ELSE <<get>>
        stored == IF written.defined \/ ~keeps THEN written ELSE store
    IN  IF ~Truthy(req.isAdmin) /\ ~getOk
        THEN [status |-> 500, calls |-> before, store |-> store]
        ELSE IF ~updateOk
        THEN [status |-> 500, calls |-> Append(before, update), store |-> store]
        ELSE [status |-> 200, calls |-> Append(before, update), store |-> stored]

NoAdminRequest == [json |-> FALSE, userId |-> Undefined, isAdmin |-> Undefined]

\* no request yet; a user who has just signed up has no roles
InitAdminRole ==
  /\ aStore = NoRoles
  /\ aReq = NoAdminRequest
  /\ aStatus = 0
  /\ aCalls = <<>>

\* no request yet; the user has any roles
InitAdminRoleAnyRoles ==
  /\ aStore \in RoleValues
  /\ aReq = NoAdminRequest
  /\ aStatus = 0
  /\ aCalls = <<>>

\* one request to the edge function, handled to its response
AdminRoleRequest(req, getFails, updateFails, keeps) ==
  LET r == SetAdminRole(req, aStore, getFails, updateFails, keeps)
  IN  /\ aReq' = req
      /\ aStatus' = r.status
      /\ aCalls' = r.calls
      /\ aStore' = r.store
      /\ UNCHANGED <<pageVars, validatorVars, layoutVars>>

NextAdminRole ==
  \E req \in AdminRequests, getFails \in BOOLEAN, updateFails \in BOOLEAN,
     keeps \in BOOLEAN :
    AdminRoleRequest(req, getFails, updateFails, keeps)

----------------------------------------------------------------------------
(* AdminLayout *)

\* session.user?.app_metadata?.roles?.includes('admin')
includesAdmin(roles) ==
  roles.defined /\ \E i \in 1..Len(roles.list) : roles.list[i] = "admin"

\* (variant: the render gate without the isAllowed check)
AdminLayoutRenderAnySession(sess, loading, roles) ==
  IF loading \/ sess = NoSession THEN "spinner" ELSE "children"

\* the render gate: the spinner, "Access Denied" or the layout with children
AdminLayoutRender(sess, loading, roles) ==
  LET isCheckingPermissions == loading \/ sess = NoSession
      isAllowed == sess # NoSession /\ includesAdmin(roles)
  IN  IF isCheckingPermissions THEN "spinner"
      ELSE IF ~isAllowed THEN "denied"
      ELSE "children"

\* the redirect effect: the target of router.replace, "none" when it calls none
AdminRedirectEffect(sess, loading, roles) ==
  IF ~loading /\ sess = NoSession THEN "/auth"
  ELSE IF sess # NoSession /\ ~loading /\ ~includesAdmin(roles) THEN "/"
  ELSE "none"

\* the sessions the listener delivers: null, or the user's session with the
\* roles of its token
DeliveredSessions ==
  {[session |-> NoSession, roles |-> NoRoles]}
    \cup {[session |-> u, roles |-> r] : u \in Sessions, r \in RoleValues}

\* onAuthStateChange callback with AdminLayout as the page: the layout
\* re-renders and its effect runs when session or isLoadingAuth changed (every
\* session delivered is a new object)
AdminLayoutOnAuth(d) ==
  /\ route \in {"/admin", "/", "/auth"}
  /\ AuthProviderCallback(d.session, d.roles)
  /\ IF route = "/admin"
     THEN /\ adminView' = AdminLayoutRender(d.session, FALSE, d.roles)
          /\ adminRedirect' =
               IF (isLoadingAuth \/ d.session # NoSession \/ session # NoSession)
                    /\ AdminRedirectEffect(d.session, FALSE, d.roles) # "none"
               THEN AdminRedirectEffect(d.session, FALSE, d.roles)
               ELSE adminRedirect
     ELSE UNCHANGED <<adminView, adminRedirect>>
  /\ UNCHANGED <<revision, route, cards, isLoading, error, outOfCards,
                 currentlyProcessingSwipe, isFetchingRef, pendingSwipes,
                 swipeInFlight, fetchInFlight, fetchCount, uncaught,
                 serverVars>>

\* the listener delivers d (sign-in, token refresh, sign-out elsewhere)
AdminAuthEvent(d) ==
  /\ AdminLayoutOnAuth(d)
  /\ last' = "auth"
  /\ UNCHANGED signOutInFlight

\* handleSignOut, up to the await: supabase.auth.signOut()
handleSignOut ==
  /\ adminView = "children"
  /\ ~signOutInFlight
  /\ signOutInFlight' = TRUE
  /\ last' = "signout"
  /\ UNCHANGED <<revision, route, session, isLoadingAuth, cards, isLoading,
                 error, outOfCards, currentlyProcessingSwipe, isFetchingRef,
                 pendingSwipes, swipeInFlight, fetchInFlight, fetchCount,
                 uncaught, serverVars>>
  /\ UNCHANGED <<sessionRoles, delivered, adminView, adminRedirect>>

\* signOut is answered: the listener delivers a null session
SignOutDone ==
  /\ signOutInFlight
  /\ signOutInFlight' = FALSE
  /\ AdminLayoutOnAuth([session |-> NoSession, roles |-> NoRoles])
  /\ last' = "signout:done"

\* the navigation started by router.replace completes: the layout unmounts
AdminRedirectDone ==
  /\ adminRedirect # "none"
  /\ route' = adminRedirect
  /\ adminRedirect' = "none"
  /\ adminView' = "none"
  /\ last' = "redirect"
  /\ UNCHANGED <<revision, session, isLoadingAuth, cards, isLoading, error,
                 outOfCards, currentlyProcessingSwipe, isFetchingRef,
                 pendingSwipes, swipeInFlight, fetchInFlight, fetchCount,
                 uncaught, serverVars, sessionRoles, delivered, signOutInFlight>>

\* the user opens an admin page: the layout mounts, renders and runs its effect
AdminOpen ==
  /\ route \in {"/", "/auth"}
  /\ route' = "/admin"
  /\ adminView' = AdminLayoutRender(session, isLoadingAuth, sessionRoles)
  /\ adminRedirect' = AdminRedirectEffect(session, isLoadingAuth, sessionRoles)
  /\ last' = "open"
  /\ UNCHANGED <<revision, session, isLoadingAuth, cards, isLoading, error,
                 outOfCards, currentlyProcessingSwipe, isFetchingRef,
                 pendingSwipes, swipeInFlight, fetchInFlight, fetchCount,
                 uncaught, serverVars, sessionRoles, delivered, signOutInFlight>>

\* the layouts are not mounted (the swipe page is)
InitLayout ==
  /\ sessionRoles = NoRoles
  /\ delivered = IF isLoadingAuth THEN <<>>
                 ELSE <<[session |-> session, roles |-> NoRoles]>>
  /\ adminView = "none"
  /\ adminRedirect = "none"
  /\ signOutInFlight = FALSE

\* a fresh load of an admin page: AuthProvider and AdminLayout have mounted,
\* the listener has not answered yet
InitAdminLayout ==
  /\ revision = "ref"
  /\ route = "/admin"
  /\ session = NoSession
  /\ isLoadingAuth = TRUE
  /\ cards = <<>> /\ isLoading = FALSE /\ error = NoError /\ outOfCards = FALSE
  /\ currentlyProcessingSwipe = {} /\ isFetchingRef = FALSE
  /\ pendingSwipes = {} /\ swipeInFlight = {} /\ fetchInFlight = {}
  /\ fetchCount = 0
  /\ uncaught = FALSE
  /\ last = "mount"
  /\ sessionRoles = NoRoles
  /\ delivered = <<>>
  /\ adminView = AdminLayoutRender(NoSession, TRUE, NoRoles)
  /\ adminRedirect = AdminRedirectEffect(NoSession, TRUE, NoRoles)
  /\ signOutInFlight = FALSE

NextAdminLayout ==
  \/ \E d \in DeliveredSessions : AdminAuthEvent(d)
  \/ handleSignOut
  \/ SignOutDone
  \/ AdminRedirectDone
  \/ AdminOpen

----------------------------------------------------------------------------
\* The page has just mounted: either on a fresh load (auth still loading, no
\* session) or by navigation with auth already loaded and a session, in which
\* case the mount effects have started the initial fetch.  The page is the
\* swipe page or the profile page, of which only the auth effect is modelled.
Blank ==
  [cards |-> <<>>, isLoading |-> FALSE, error |-> NoError, outOfCards |-> FALSE,
   currentlyProcessingSwipe |-> {}, isFetchingRef |-> FALSE,
   swipeInFlight |-> {}, fetchInFlight |-> {}, fetchCount |-> 0,
   uncaught |-> FALSE]

InitPage ==
  /\ revision \in {"ref", "direct"}
  /\ route \in {"/swipe", "/profile"}
  /\ route = "/profile" => revision = "ref"
  /\ \E s \in {NoSession, 1} :
       /\ session = s
       /\ isLoadingAuth = (s = NoSession)
       /\ LET st == IF route = "/swipe"
                    THEN PrefetchEffect(InitialFetchEffect(Blank, s), s)
                    ELSE Blank
          IN  /\ cards = st.cards
              /\ isLoading = st.isLoading
              /\ error = st.error
              /\ outOfCards = st.outOfCards
              /\ currentlyProcessingSwipe = st.currentlyProcessingSwipe
              /\ isFetchingRef = st.isFetchingRef
              /\ swipeInFlight = st.swipeInFlight
              /\ fetchInFlight = st.fetchInFlight
              /\ fetchCount = st.fetchCount
              /\ uncaught = st.uncaught
  /\ pendingSwipes = {}
  /\ last = "mount"

Init == InitPage /\ InitValidator /\ InitAdminRole /\ InitLayout

Next ==
  \/ \E s \in Sessions \cup {NoSession}, n \in BOOLEAN : AuthEvent(s, n)
  \/ \E k \in 1..VISIBLE_CARDS, r \in Releases : DragEnd(k, r[1], r[2])
  \/ \E key \in Keys, w \in BOOLEAN : onKeyDown(key, w)
  \/ \E d \in Directions : handleButtonSwipe(d)
  \/ \E p \in pendingSwipes : AnimationDone(p)
  \/ \E c \in swipeInFlight, e \in SwipeErrors \cup {NoSwipeError} : SwipeDone(c, e)
  \/ \E r \in fetchInFlight :
       \/ \E b \in Batches : FetchDone(r, b, NoRpcError)
       \/ \E e \in RpcErrors : FetchDone(r, <<>>, e)

Spec == Init /\ [][Next]_vars

SpecValidator == Init /\ [][NextValidator]_vars

\* the edge function before its first request, for a user with any roles
InitSetAdminRole ==
  InitPage /\ InitValidator /\ InitAdminRoleAnyRoles /\ InitLayout

SpecAdminRole == InitSetAdminRole /\ [][NextAdminRole]_vars

\* a fresh load of an admin page
InitAdmin == InitAdminLayout /\ InitValidator /\ InitAdminRole

SpecAdminLayout == InitAdmin /\ [][NextAdminLayout]_vars

TypeOK ==
  /\ revision \in {"ref", "direct"}
  /\ route \in {"/swipe", "/profile", "/auth", "/admin", "/"}
  /\ session \in Sessions \cup {NoSession}
  /\ isLoadingAuth \in BOOLEAN
  /\ \A i \in 1..Len(cards) : cards[i] \in ImageIds
  /\ isLoading \in BOOLEAN
  /\ outOfCards \in BOOLEAN
  /\ currentlyProcessingSwipe \subseteq ImageIds
  /\ isFetchingRef \in BOOLEAN
  /\ fetchCount \in Nat

----------------------------------------------------------------------------
(* Claims *)

Mounted == route = "/swipe"
Front == IF Len(cards) > 0 THEN cards[1] ELSE NoCard
Conflict == [isNull |-> FALSE, code |-> UNIQUE_VIOLATION]
OtherError == [isNull |-> FALSE, code |-> "42501"]
SwipeAnswers == SwipeErrors \cup {NoSwipeError}

\* C1: whenever the insert of a completeSwipe of the front card is answered
\* (success, duplicate conflict 23505 or any other error), that card is
\* removed from the card list.
C1_RemovedWhateverTheAnswer ==
  [][\A c \in swipeInFlight, e \in SwipeAnswers :
       (SwipeDone(c, e) /\ Mounted /\ Front = c.image_id)
         => cards' = Tail(cards)]_vars

\* C2: an insert answered with 23505 is treated like a successful one: the
\* card is removed from the front of the list, no error message is set, no
\* exception escapes, the id leaves currentlyProcessingSwipe, and the page
\* ends in the state a successful insert would have left.
C2_ConflictLikeSuccess ==
  [][\A c \in swipeInFlight :
       (last' = "insert:23505" /\ SwipeDone(c, Conflict) /\ Mounted)
         => /\ Front = c.image_id => cards' = Tail(cards)
            /\ error' # NoError => error' = error
            /\ ~uncaught'
            /\ c.image_id \notin currentlyProcessingSwipe'
            /\ c \notin swipeInFlight'
            /\ completeSwipeResume(Page, revision, c, Conflict)
                 = completeSwipeResume(Page, revision, c, NoSwipeError)]_vars

C2_Witness ==
  /\ last = "insert:23505"
  /\ Mounted
  /\ error = NoError
  /\ currentlyProcessingSwipe = {}
  /\ Len(cards) > 0

\* C3: a completed swipe of the front card issues exactly one insert into
\* 'swipes' with the session user's id, the card's id and direction = (the
\* swipe is to the right), and removes that card from the front of the list.
C3_OneInsertAndFrontRemoved ==
  [][/\ \A p \in pendingSwipes :
          (AnimationDone(p) /\ Mounted /\ p.id = Front
             /\ p.id \notin currentlyProcessingSwipe)
            => /\ swipeInFlight' \ swipeInFlight =
                    {InsertCall(UserIdOf(session), p.id, p.dir = "right")}
               /\ fetchInFlight' = fetchInFlight
     /\ \A d \in Directions :
          (handleButtonSwipe(d) /\ revision = "direct" /\ Len(cards) > 0
             /\ Front \notin currentlyProcessingSwipe)
            => /\ swipeInFlight' \ swipeInFlight =
                    {InsertCall(UserIdOf(session), Front, d = "right")}
               /\ fetchInFlight' = fetchInFlight
     /\ \A c \in swipeInFlight, e \in SwipeAnswers :
          (SwipeDone(c, e) /\ Mounted /\ Front = c.image_id)
            => cards' = Tail(cards)]_vars

RECURSIVE NotIn(_, _)
\* the elements of q that are not in S, in q's order
NotIn(q, S) ==
  IF q = <<>> THEN <<>>
  ELSE IF Head(q) \in S THEN NotIn(Tail(q), S)
  ELSE <<Head(q)>> \o NotIn(Tail(q), S)

\* C5: a non-empty batch returned by get_unseen_images leaves the previous
\* list unchanged and in order, followed by the returned cards whose ids were
\* not in the list, in the order returned.
C5_FetchAppends ==
  [][\A r \in fetchInFlight, b \in Batches \ {<<>>} :
       (last' = "rpc:cards" /\ FetchDone(r, b, NoRpcError) /\ Mounted)
         => /\ Len(cards') >= Len(cards)
            /\ SubSeq(cards', 1, Len(cards)) = cards
            /\ SubSeq(cards', Len(cards) + 1, Len(cards'))
                 = NotIn(b, {cards[i] : i \in 1..Len(cards)})]_vars

C5_Witness ==
  /\ last = "rpc:cards"
  /\ Mounted
  /\ Len(cards) >= 3

\* C6: for every non-empty card list the rendered stack is the first
\* min(VISIBLE_CARDS, length) cards and exactly one rendered card is active:
\* the card at index 0 of the list (also for lengths 1 and 2).
C6_OneActiveCardAtFront ==
  (Mounted /\ ~isLoadingAuth /\ session # NoSession /\ Len(cards) > 0)
    => LET n == Min(VISIBLE_CARDS, Len(cards))
       IN  /\ Len(Rendered) = n
           /\ \A k \in 1..n : Rendered[k].card = cards[n + 1 - k]
           /\ Cardinality({k \in 1..n : Rendered[k].isActive}) = 1
           /\ Rendered[n].isActive
           /\ activeCardRef = cards[1]

\* C7: a drag release on the active card starts a swipe iff |offset.x| > 100
\* or |velocity.x| > 200, to the right iff offset.x > 0 and to the left
\* otherwise; any other release (thresholds not met, or a card that is not
\* active) starts nothing, issues no insert and leaves the list unchanged.
C7_DragRelease ==
  [][\A k \in 1..Len(Rendered), r \in Releases :
       (last' = "drag" /\ DragEnd(k, r[1], r[2]))
         => LET past == Abs(r[1]) > 100 \/ Abs(r[2]) > 200
                started == [id |-> Rendered[k].card,
                            dir |-> IF r[1] > 0 THEN "right" ELSE "left",
                            isActive |-> TRUE, sess |-> session]
            IN  /\ IF Rendered[k].isActive /\ past
                   THEN pendingSwipes' = pendingSwipes \cup {started}
                   ELSE pendingSwipes' = pendingSwipes
                /\ swipeInFlight' = swipeInFlight
                /\ cards' = cards]_vars

C7_Witness ==
  /\ last = "drag"
  /\ revision = "direct"
  /\ pendingSwipes # {}
  /\ Len(cards) >= 3

\* C8 as stated: a failed get_unseen_images call and a failed 'swipes'
\* insert (other than a duplicate conflict) each leave the page's error
\* state non-null, and no exception escapes.
C8_EveryFailureSetsError ==
  (Mounted /\ last \in {"rpc:error", "insert:42501"})
    => (error # NoError /\ ~uncaught)

\* C8 as amended: a failed get_unseen_images call sets the page's error state
\* to a non-null message; a failed 'swipes' insert (other than a duplicate
\* conflict) is caught and only logged, leaving the error state as it was;
\* neither lets an exception escape.
C8_FetchFailureSetsErrorSwipeFailureLogged ==
  [][/\ \A r \in fetchInFlight, e \in RpcErrors :
          (FetchDone(r, <<>>, e) /\ Mounted)
            => /\ error' = (IF e.message = "" THEN "Failed to fetch images."
                                               ELSE e.message)
               /\ error' # NoError
               /\ ~uncaught'
     /\ \A c \in swipeInFlight :
          SwipeDone(c, OtherError)
            => /\ error' = error
               /\ ~uncaught']_vars

C8_Witness ==
  /\ last = "insert:42501"
  /\ Mounted
  /\ error = NoError
  /\ Len(cards) > 0

\* C9: a failed get_unseen_images call is not retried: the failing call
\* issues no new call, and from a state whose last fetch failed a call is
\* issued only by a step in which a swipe changes the length of the card list
\* or the auth listener delivers another session.
C9_NoAutomaticRetry ==
  [][/\ \A r \in fetchInFlight, e \in RpcErrors :
          FetchDone(r, <<>>, e)
            => (fetchInFlight' = fetchInFlight \ {r} /\ ~isFetchingRef')
     /\ (error # NoError /\ fetchInFlight' \ fetchInFlight # {})
          => \/ /\ last' \in {"insert:ok", "insert:23505", "insert:42501"}
                /\ Len(cards') # Len(cards)
             \/ \E s \in Sessions \cup {NoSession}, n \in BOOLEAN :
                  AuthEvent(s, n) /\ (s # session \/ n)]_vars

C9_Witness ==
  /\ error # NoError
  /\ last \notin {"rpc:error", "mount"}
  /\ Mounted /\ session # NoSession /\ ~outOfCards
  /\ Len(cards) < 3
  /\ fetchInFlight = {}
  /\ ~isFetchingRef

\* C10: for an INSERT event on storage.objects with a record in 'avatars',
\* storage remove is called on the object's path iff the file is
\* non-conforming (size not a number or above 2*1024*1024, mimetype not a
\* string or, lower-cased, not one of the four image types); a file of
\* exactly 2*1024*1024 bytes with an allowed type is kept.
IsAvatarInsert(req) ==
  /\ req.method = "POST" /\ req.json
  /\ req.type = "INSERT" /\ req.table = "objects" /\ req.schema = "storage"
  /\ req.record.present /\ req.record.bucket_id = "avatars"

\* the mimetype values tried whose lower-case form is an allowed type
AcceptedMimeValues ==
  {Str(<<"i", "m", "a", "g", "e", "/", "j", "p", "e", "g">>),
   Str(<<"i", "m", "a", "g", "e", "/", "p", "n", "g">>),
   Str(<<"i", "m", "a", "g", "e", "/", "g", "i", "f">>),
   Str(<<"i", "m", "a", "g", "e", "/", "w", "e", "b", "p">>),
   Str(<<"I", "M", "A", "G", "E", "/", "P", "N", "G">>),
   Str(<<"I", "m", "a", "g", "e", "/", "J", "p", "e", "g">>)}

NonConforming(record) ==
  \/ record.size.t # "number"
  \/ record.size.n > 2 * 1024 * 1024
  \/ record.mimetype.t # "string"
  \/ record.mimetype \notin AcceptedMimeValues

C10_RemovedIffNonConforming ==
  IsAvatarInsert(vReq)
    => /\ NonConforming(vReq.record)
            <=> vRemoved = <<[bucket |-> "avatars", paths |-> <<vReq.record.name>>]>>
       /\ ~NonConforming(vReq.record) <=> vRemoved = <<>>

C10_Witness ==
  /\ IsAvatarInsert(vReq)
  /\ vReq.record.size = Num(2 * 1024 * 1024)
  /\ vReq.record.mimetype = Str(<<"I", "M", "A", "G", "E", "/", "P", "N", "G">>)
  /\ vRemoved = <<>>
  /\ vStatus = 200

\* the last request has been answered
Answered == vStatus # 0

\* the three ways of being outside the trigger: not a POST; a POST whose
\* body is read and is not an INSERT on storage.objects with a record; an
\* INSERT record of another bucket
OutsideTrigger(req) ==
  \/ req.method # "POST"
  \/ /\ req.method = "POST" /\ req.json
     /\ ~(req.record.present /\ req.type = "INSERT"
           /\ req.table = "objects" /\ req.schema = "storage")
  \/ /\ req.method = "POST" /\ req.json
     /\ req.record.present /\ req.type = "INSERT"
     /\ req.table = "objects" /\ req.schema = "storage"
     /\ req.record.bucket_id # "avatars"

\* C11: the validator deletes nothing outside its trigger: a request that is
\* not a POST INSERT on storage.objects with an 'avatars' record causes no
\* storage remove call, and a non-POST request, a POST whose body is not an
\* INSERT on storage.objects with a record, and an INSERT record of another
\* bucket are each answered with status 200.
C11_NothingRemovedOutsideTrigger ==
  Answered
    => /\ ~IsAvatarInsert(vReq) => vRemoved = <<>>
       /\ OutsideTrigger(vReq) => (vRemoved = <<>> /\ vStatus = 200)

C11_Witness ==
  /\ Answered
  /\ vReq.method = "POST" /\ vReq.json /\ vReq.type = "INSERT"
  /\ vReq.table = "objects" /\ vReq.schema = "storage" /\ vReq.record.present
  /\ vReq.record.bucket_id = "house-images"
  /\ vReq.record.size = Num(2 * 1024 * 1024 + 1)
  /\ vRemoved = <<>>
  /\ vStatus = 200

\* C12: for a POST INSERT event on an 'avatars' object the response status is
\* 200 iff the file is conforming, 400 iff the file is non-conforming and its
\* deletion succeeded, and 500 iff the deletion of a non-conforming file
\* failed; a POST whose body cannot be read is answered with 500.
C12_StatusByOutcome ==
  /\ (Answered /\ IsAvatarInsert(vReq))
       => /\ vStatus \in {200, 400, 500}
          /\ vStatus = 200 <=> ~NonConforming(vReq.record)
          /\ vStatus = 400 <=> (NonConforming(vReq.record) /\ ~vDeleteFails)
          /\ vStatus = 500 <=> (NonConforming(vReq.record) /\ vDeleteFails)
  /\ (Answered /\ vReq.method = "POST" /\ ~vReq.json) => vStatus = 500

C12_Witness ==
  /\ IsAvatarInsert(vReq)
  /\ vReq.record.size = Num(0)
  /\ vReq.record.mimetype = Str(<<"t", "e", "x", "t", "/", "p", "l", "a", "i", "n">>)
  /\ vDeleteFails
  /\ vRemoved # <<>>
  /\ vStatus = 500

\* the last set-admin-role call of the last request, if any
LastAdminCall == aCalls[Len(aCalls)]
HasAdmin(roles) == roles.defined /\ \E i \in 1..Len(roles.list) : roles.list[i] = "admin"

\* C13: after a set-admin-role request for a userId is answered with 200,
\* the roles value written to that user's app_metadata (the roles of the
\* updateUserById call for that userId) contains 'admin' iff the request's
\* isAdmin was truthy.
C13_AdminIffTruthy ==
  aStatus = 200
    => /\ Len(aCalls) > 0
       /\ LastAdminCall.fn = "updateUserById"
       /\ LastAdminCall.userId = aReq.userId
       /\ HasAdmin(LastAdminCall.roles) <=> Truthy(aReq.isAdmin)

C13_Witness ==
  /\ aStatus = 200
  /\ aReq.isAdmin = Bool(FALSE)
  /\ Len(aCalls) = 2
  /\ aCalls[1].roles = RolesOf(<<"admin", "editor">>)
  /\ aCalls[2].roles = RolesOf(<<"editor">>)
  /\ aStore = RolesOf(<<"editor">>)

\* C14: a set-admin-role request without a userId is answered with 400 and
\* makes no getUserById or updateUserById call; a request in which
\* getUserById or updateUserById returns an error is answered with 500; 200
\* is returned only after updateUserById succeeded.
C14_StatusByCalls ==
  aStatus # 0
    => /\ (aReq.json /\ ~Truthy(aReq.userId)) => (aStatus = 400 /\ aCalls = <<>>)
       /\ (\E i \in 1..Len(aCalls) : ~aCalls[i].ok) => aStatus = 500
       /\ aStatus = 200
            => /\ Len(aCalls) > 0
               /\ LastAdminCall.fn = "updateUserById" /\ LastAdminCall.ok
               /\ \A i \in 1..Len(aCalls) : aCalls[i].ok
       /\ aStatus \in {200, 400, 500}

C14_Witness ==
  /\ aStatus = 500
  /\ aReq.userId = KnownUser
  /\ Len(aCalls) = 2
  /\ aCalls[1].ok
  /\ ~aCalls[2].ok
  /\ aCalls[2].fn = "updateUserById"

\* C15: AdminLayout renders its children only with auth loading finished, a
\* session and 'admin' among the session user's app_metadata.roles; mounted
\* with auth loaded and no session it has called router.replace('/auth'); with
\* a session lacking the admin role it has called router.replace('/') and does
\* not render the children.
C15_ChildrenOnlyForAdmins ==
  /\ adminView = "children"
       => (~isLoadingAuth /\ session # NoSession /\ HasAdmin(sessionRoles))
  /\ (route = "/admin" /\ ~isLoadingAuth /\ session = NoSession)
       => (adminRedirect = "/auth" /\ adminView # "children")
  /\ (route = "/admin" /\ ~isLoadingAuth /\ session # NoSession
        /\ ~HasAdmin(sessionRoles))
       => (adminRedirect = "/" /\ adminView # "children")

C15_Witness ==
  /\ route = "/admin"
  /\ ~isLoadingAuth /\ session # NoSession
  /\ sessionRoles = RolesOf(<<"editor">>)
  /\ adminView = "denied"
  /\ adminRedirect = "/"

\* C16: isLoading is true from mount until the first onAuthStateChange
\* callback and false after every callback; the context's session is the one
\* the most recent callback delivered, and null before the first.
C16_LoadingUntilFirstCallback ==
  /\ delivered = <<>> => (isLoadingAuth /\ session = NoSession)
  /\ delivered # <<>>
       => /\ ~isLoadingAuth
          /\ session = delivered[1].session
          /\ sessionRoles = delivered[1].roles

C16_Witness ==
  /\ delivered = <<[session |-> NoSession, roles |-> NoRoles]>>
  /\ ~isLoadingAuth
  /\ session = NoSession
  /\ route = "/auth"

\* C17: on the swipe and profile pages the redirect to '/auth' is issued
\* only with auth loading finished and a null session, and no
\* get_unseen_images call or 'swipes' insert is issued while the session is
\* null.
C17_NoCallsWithoutSession ==
  [][/\ (route' = "/auth" /\ route # "/auth")
          => (~isLoadingAuth' /\ session' = NoSession)
     /\ (\/ fetchCount' > fetchCount
         \/ /\ last' \in {"rpc:cards", "rpc:empty", "rpc:error"}
            /\ fetchCount' = fetchCount
         \/ swipeInFlight' \ swipeInFlight # {})
          => session' # NoSession]_vars

\* C18: at most one get_unseen_images request is in flight at any time:
\* fetchImages starts none while isFetchingRef is true (the flag is true
\* exactly while a request is awaited), and a completed request (cards, empty
\* result or error) leaves isFetchingRef and isLoading false unless the
\* effects of the re-render have started the next one.
C18_OneFetchInFlight ==
  /\ fetchCount <= 1
  /\ isFetchingRef <=> fetchCount = 1
  /\ Mounted => (isLoading <=> isFetchingRef)
  /\ (Mounted /\ last \in {"rpc:cards", "rpc:empty", "rpc:error"} /\ fetchCount = 0)
       => (~isFetchingRef /\ ~isLoading)

C18_Witness ==
  /\ Mounted
  /\ last = "rpc:cards"
  /\ Len(cards) \in 1..2
  /\ fetchCount = 1
  /\ isFetchingRef /\ isLoading

\* the ids of the inserts in flight
IdsInFlight == {c.image_id : c \in swipeInFlight}

\* C19: at most one 'swipes' insert per image id is in flight at any time;
\* a completeSwipe call for an id that is in currentlyProcessingSwipe issues
\* no insert and changes no state; currentlyProcessingSwipe holds exactly
\* the ids whose insert has been started and has not completed (success,
\* conflict or error).
C19_OneInsertPerId ==
  [][/\ \A c1 \in swipeInFlight', c2 \in swipeInFlight' :
          c1.image_id = c2.image_id => c1 = c2
     /\ currentlyProcessingSwipe' = {c.image_id : c \in swipeInFlight'}
     /\ \A p \in pendingSwipes :
          (AnimationDone(p) /\ p.isActive /\ p.id \in currentlyProcessingSwipe)
            => UNCHANGED <<cards, isLoading, error, outOfCards,
                           currentlyProcessingSwipe, isFetchingRef,
                           swipeInFlight, fetchInFlight, fetchCount>>
     /\ \A d \in Directions :
          (handleButtonSwipe(d) /\ revision = "direct" /\ Len(cards) > 0
             /\ Front \in currentlyProcessingSwipe)
            => UNCHANGED <<cards, isLoading, error, outOfCards,
                           currentlyProcessingSwipe, isFetchingRef,
                           swipeInFlight, fetchInFlight, fetchCount>>
     /\ \A c \in swipeInFlight, e \in SwipeAnswers :
          SwipeDone(c, e)
            => (c.image_id \notin currentlyProcessingSwipe' /\ c \notin swipeInFlight')]_vars

C19_Witness ==
  /\ Mounted
  /\ last = "animation:busy"
  /\ Cardinality(swipeInFlight) = 1
  /\ currentlyProcessingSwipe = {Front}
  /\ IdsInFlight = {Front}

\* C20: in every reachable state the card list contains no two cards with
\* the same id, whatever batches the backend returns (a batch that repeats an
\* id of the list or repeats an id within itself included).
C20_NoDuplicateIds ==
  \A i \in 1..Len(cards), j \in 1..Len(cards) : i # j => cards[i] # cards[j]

====
